---- MODULE Spec2Model ----
(***************************************************************************)
(* Model of ts_line_counter.py: a recursive scan of a source tree that     *)
(* tallies, per top-level folder, the number of TypeScript files, their    *)
(* total lines and their "code" lines, and renders a sorted table on the   *)
(* console and optionally in an output file.                               *)
(*                                                                         *)
(* Text is modelled as sequences of one-character strings, so that         *)
(* splitting into lines, stripping, prefix tests, suffix extraction and    *)
(* lexicographic sorting are computed as the code computes them.           *)
(***************************************************************************)
EXTENDS Integers, Sequences, FiniteSets, TLC

VARIABLES
    tree,         \* the file system below the scan root: a set of entries
    srcExists,    \* whether the resolved --src path exists
    outputArg,    \* whether --output was given
    outWritable,  \* whether the output path can be opened for writing
    pc,           \* position of main: "start", "scan", "report", "write", "done"
    exitStatus,   \* process exit status once pc = "done", -1 while running
    visited,      \* entries already yielded by directory.rglob('*')
    stats,        \* the stats dict, as its entries in insertion order
    totals,       \* the triple returned by print_stats
    console,      \* lines printed to standard output
    outfile,      \* lines written to the --output file (<<>>: never opened)
    runs,         \* number of runs of main started so far
    prevConsole,  \* lines printed by the previous run
    prevOutfile,  \* output file left by the previous run
    cfile,        \* the file handed to count_lines_in_file on its own
    result        \* what count_lines_in_file returned for cfile

vars == <<tree, srcExists, outputArg, outWritable, pc, exitStatus, visited,
          stats, totals, console, outfile, runs, prevConsole, prevOutfile,
          cfile, result>>

mainVars == <<tree, srcExists, outputArg, outWritable, pc, exitStatus, visited,
              stats, totals, console, outfile, runs, prevConsole, prevOutfile>>

(***************************************************************************)
(* Bounds                                                                  *)
(***************************************************************************)
MaxFiles == 3     \* entries in the scanned tree
MaxLen == 5       \* characters in a file built for count_lines_in_file
MaxRuns == 2      \* runs of main over the same tree

(***************************************************************************)
(* Characters                                                              *)
(***************************************************************************)
NL == "\n"
BAD == "xFF"      \* a byte that is not valid UTF-8

Whitespace == {" ", NL}

ContentChars == {" ", "/", "*", "x", NL, BAD}

\* Unicode code points of the characters that occur in path names.
Ord(c) ==
    CASE c = "." -> 46
      [] c = "S" -> 83
      [] c = "T" -> 84
      [] c = "a" -> 97
      [] c = "b" -> 98
      [] c = "d" -> 100
      [] c = "j" -> 106
      [] c = "n" -> 110
      [] c = "o" -> 111
      [] c = "r" -> 114
      [] c = "s" -> 115
      [] c = "t" -> 116
      [] c = "w" -> 119
      [] c = "x" -> 120
      [] c = "y" -> 121
      [] c = "z" -> 122

\* str.lower() on one character.
LowerChar(c) ==
    CASE c = "S" -> "s"
      [] c = "T" -> "t"
      [] OTHER -> c

lower(s) == [i \in 1..Len(s) |-> LowerChar(s[i])]

(***************************************************************************)
(* String helpers used by the program                                      *)
(***************************************************************************)
startswith(s, prefix) ==
    /\ Len(s) >= Len(prefix)
    /\ SubSeq(s, 1, Len(prefix)) = prefix

RECURSIVE lstrip(_)
lstrip(s) ==
    IF s # <<>> /\ s[1] \in Whitespace THEN lstrip(Tail(s)) ELSE s

RECURSIVE rstrip(_)
rstrip(s) ==
    IF s # <<>> /\ s[Len(s)] \in Whitespace
    THEN rstrip(SubSeq(s, 1, Len(s) - 1))
    ELSE s

strip(s) == rstrip(lstrip(s))

\* Index of the first newline of s, 0 if there is none.
RECURSIVE find_newline(_, _)
find_newline(s, i) ==
    IF i > Len(s) THEN 0
    ELSE IF s[i] = NL THEN i
    ELSE find_newline(s, i + 1)

\* f.readlines(): the line records, each keeping its terminating newline;
\* a last line without a newline is a record too.
RECURSIVE readlines(_)
readlines(s) ==
    IF s = <<>> THEN <<>>
    ELSE LET n == find_newline(s, 1) IN
         IF n = 0 THEN <<s>>
         ELSE <<SubSeq(s, 1, n)>> \o readlines(SubSeq(s, n + 1, Len(s)))

\* Index of the last "." of name, 0 if there is none (str.rfind, 1-based).
RECURSIVE rfind_dot(_, _)
rfind_dot(name, i) ==
    IF i = 0 THEN 0
    ELSE IF name[i] = "." THEN i
    ELSE rfind_dot(name, i - 1)

\* PurePath.suffix of a file name.
suffix(name) ==
    LET i == rfind_dot(name, Len(name)) IN
    IF 1 < i /\ i < Len(name) THEN SubSeq(name, i, Len(name)) ELSE <<>>

\* Lexicographic order of str by code point.
RECURSIVE str_lt(_, _)
str_lt(s, t) ==
    IF t = <<>> THEN FALSE
    ELSE IF s = <<>> THEN TRUE
    ELSE IF Ord(s[1]) < Ord(t[1]) THEN TRUE
    ELSE IF Ord(s[1]) > Ord(t[1]) THEN FALSE
    ELSE str_lt(Tail(s), Tail(t))

\* Insert k into the ascending sequence srt.
RECURSIVE insert_sorted(_, _)
insert_sorted(k, srt) ==
    IF srt = <<>> THEN <<k>>
    ELSE IF str_lt(k, srt[1]) THEN <<k>> \o srt
    ELSE <<srt[1]>> \o insert_sorted(k, Tail(srt))

sorted_unsorted(keys) == keys

\* sorted(keys) for a sequence of strings.
RECURSIVE sorted(_)
sorted(keys) ==
    IF keys = <<>> THEN <<>>
    ELSE insert_sorted(keys[1], sorted(Tail(keys)))

(***************************************************************************)
(* is_typescript_file                                                      *)
(***************************************************************************)
TS == <<".", "t", "s">>
TSX == <<".", "t", "s", "x">>

is_typescript_file(path) ==
    lower(suffix(path[Len(path)])) \in {TS, TSX}

(***************************************************************************)
(* count_lines_in_file                                                     *)
(***************************************************************************)
\* open()/readlines() raises: the file cannot be opened, or its bytes are
\* not valid UTF-8.
read_raises(f) ==
    \/ ~f.readable
    \/ \E i \in 1..Len(f.content) : f.content[i] = BAD

is_code_line_nolstrip(line) ==
    LET stripped_line == rstrip(line) IN
    /\ stripped_line # <<>>
    /\ ~startswith(stripped_line, <<"/", "/">>)
    /\ ~startswith(stripped_line, <<"/", "*">>)

\* The condition of the loop body at line 36.
is_code_line(line) ==
    LET stripped_line == strip(line) IN
    /\ stripped_line # <<>>
    /\ ~startswith(stripped_line, <<"/", "/">>)
    /\ ~startswith(stripped_line, <<"/", "*">>)

\* The for loop over lines, code_lines being the accumulator.
RECURSIVE count_code(_, _)
count_code(lines, code_lines) ==
    IF lines = <<>> THEN code_lines
    ELSE count_code(Tail(lines),
                    IF is_code_line(lines[1]) THEN code_lines + 1 ELSE code_lines)

count_lines_in_file_leaky(f) ==
    LET lines == readlines(SelectSeq(f.content, LAMBDA c : c # BAD)) IN
    IF read_raises(f)
    THEN [total_lines |-> Len(lines), code_lines |-> 0, err |-> TRUE]
    ELSE [total_lines |-> Len(lines), code_lines |-> count_code(lines, 0),
          err |-> FALSE]

\* Returns (total_lines, code_lines); err tells that the except branch ran
\* and printed the error message.
count_lines_in_file(f) ==
    IF read_raises(f)
    THEN [total_lines |-> 0, code_lines |-> 0, err |-> TRUE]
    ELSE LET lines == readlines(f.content) IN
         [total_lines |-> Len(lines), code_lines |-> count_code(lines, 0),
          err |-> FALSE]

(***************************************************************************)
(* The scanned tree                                                        *)
(***************************************************************************)
\* Paths relative to the scan root, as their parts.
PathAX == << <<"a">>, <<"x", ".", "t", "s">> >>                  \* a/x.ts
PathBY == << <<"b">>, <<"y", ".", "t", "s", "x">> >>             \* b/y.tsx
PathRoot == << <<"a", ".", "t", "s">> >>                         \* a.ts
PathASZ == << <<"a">>, <<"s">>, <<"z", ".", "T", "S">> >>        \* a/s/z.TS
PathBN == << <<"b">>, <<"n", ".", "j", "s">> >>                  \* b/n.js
PathD == << <<"d", ".", "t", "s">> >>                            \* d.ts/ (a directory)

DirPaths == {PathD}
Paths == {PathAX, PathBY, PathRoot, PathASZ, PathBN, PathD}

\* blank line, comment line, statement: the example of the specification
ContentExample == <<NL, "/", "/", NL, "x">>
\* two statements, the last one without a newline
ContentTwo == <<"x", NL, "x">>
\* bytes that do not decode
ContentBad == <<"x", NL, BAD>>

\* What a file can be: readable or not, and its bytes.
FileKinds ==
    { [readable |-> TRUE, content |-> ContentExample],
      [readable |-> TRUE, content |-> ContentTwo],
      [readable |-> TRUE, content |-> ContentBad],
      [readable |-> FALSE, content |-> ContentTwo] }

\* The kinds that tell matching files apart; the bytes of a file that is
\* never opened do not matter.
KindsOf(p) ==
    IF p \in DirPaths \/ ~is_typescript_file(p)
    THEN {[readable |-> TRUE, content |-> ContentTwo]}
    ELSE FileKinds

Entry(p, k) ==
    IF p \in DirPaths
    THEN [path |-> p, isFile |-> FALSE, readable |-> FALSE, content |-> <<>>]
    ELSE [path |-> p, isFile |-> TRUE, readable |-> k.readable,
          content |-> k.content]

Trees ==
    UNION { { {Entry(p, kind[p]) : p \in P} :
              kind \in {k \in [P -> FileKinds] : \A p \in P : k[p] \in KindsOf(p)} } :
            P \in {Q \in SUBSET Paths : Cardinality(Q) <= MaxFiles} }

\* The files scan_directory counts.
Matched(t) == {e \in t : e.isFile /\ is_typescript_file(e.path)}

(***************************************************************************)
(* Output lines                                                            *)
(***************************************************************************)
Line(kind) ==
    [kind |-> kind, folder |-> <<>>, path |-> <<>>,
     files |-> 0, total_lines |-> 0, code_lines |-> 0]

ErrorLine(p) == [Line("error") EXCEPT !.path = p]

RowLine(folder, data) ==
    [Line("row") EXCEPT !.folder = folder, !.files = data.files,
                        !.total_lines = data.total_lines,
                        !.code_lines = data.code_lines]

TotalLine(t) ==
    [Line("total") EXCEPT !.files = t[1], !.total_lines = t[2],
                          !.code_lines = t[3]]

(***************************************************************************)
(* The stats dict                                                          *)
(***************************************************************************)
ROOT == <<"r", "o", "o", "t">>

keys(st) == [i \in 1..Len(st) |-> st[i].folder]

has_key(st, k) == \E i \in 1..Len(st) : st[i].folder = k

\* stats[k]
get(st, k) == st[CHOOSE i \in 1..Len(st) : st[i].folder = k]

\* Line 56.
folder_name(parts) == IF parts # <<>> THEN parts[1] ELSE ROOT

\* Lines 58-59.
setdefault(st, k) ==
    IF has_key(st, k) THEN st
    ELSE Append(st, [folder |-> k, files |-> 0, total_lines |-> 0,
                     code_lines |-> 0])

add_file_skip_failed(st, k, r) ==
    [i \in 1..Len(st) |->
        IF st[i].folder = k
        THEN [st[i] EXCEPT !.files = @ + (IF r.err THEN 0 ELSE 1),
                           !.total_lines = @ + r.total_lines,
                           !.code_lines = @ + r.code_lines]
        ELSE st[i]]

add_file_swapped(st, k, r) ==
    [i \in 1..Len(st) |->
        IF st[i].folder = k
        THEN [st[i] EXCEPT !.files = @ + 1,
                           !.total_lines = @ + r.code_lines,
                           !.code_lines = @ + r.total_lines]
        ELSE st[i]]

\* Lines 62-64.
add_file(st, k, r) ==
    [i \in 1..Len(st) |->
        IF st[i].folder = k
        THEN [st[i] EXCEPT !.files = @ + 1,
                           !.total_lines = @ + r.total_lines,
                           !.code_lines = @ + r.code_lines]
        ELSE st[i]]

(***************************************************************************)
(* print_stats and the table written to the output file                    *)
(***************************************************************************)
\* One row per folder of sorted_folders.
rows(st, sorted_folders) ==
    [i \in 1..Len(sorted_folders) |->
        RowLine(sorted_folders[i], get(st, sorted_folders[i]))]

\* The accumulation of lines 89-91 over the loop of line 85.
RECURSIVE sum_rows(_, _, _)
sum_rows(st, sorted_folders, acc) ==
    IF sorted_folders = <<>> THEN acc
    ELSE LET data == get(st, sorted_folders[1]) IN
         sum_rows(st, Tail(sorted_folders),
                  <<acc[1] + data.files, acc[2] + data.total_lines,
                    acc[3] + data.code_lines>>)

print_stats_totals_mixed(st) ==
    LET t == sum_rows(st, sorted(keys(st)), <<0, 0, 0>>) IN <<t[1], t[3], t[3]>>

\* What print_stats returns.
print_stats_totals(st) == sum_rows(st, sorted(keys(st)), <<0, 0, 0>>)

\* What print_stats prints.
print_stats_lines(st) ==
    <<Line("rule="), Line("title"), Line("rule="), Line("header"),
      Line("rule-")>>
    \o rows(st, sorted(keys(st)))
    \o <<Line("rule-"), TotalLine(print_stats_totals(st)), Line("rule=")>>

\* What main writes to the output file, given print_stats' return value.
output_file_lines(st, t) ==
    <<Line("title"), Line("rule="), Line("header"), Line("rule-")>>
    \o rows(st, sorted(keys(st)))
    \o <<Line("rule-"), TotalLine(t), Line("rule=")>>

(***************************************************************************)
(* main                                                                    *)
(***************************************************************************)
\* The lines of the console that belong to the table: everything but the
\* per-file error messages of count_lines_in_file.
Table(out) == SelectSeq(out, LAMBDA l : l.kind # "error")

main_src_missing_ignored ==
    /\ pc = "start"
    /\ ~srcExists
    /\ console' = Append(console, Line("scanning"))
    /\ pc' = "scan"
    /\ UNCHANGED <<tree, srcExists, outputArg, outWritable, exitStatus, visited,
                   stats, totals, outfile, runs, prevConsole,
                   prevOutfile, cfile, result>>

\* Lines 111-113: the directory does not exist, sys.exit(1).
main_src_missing ==
    /\ pc = "start"
    /\ ~srcExists
    /\ console' = Append(console, Line("missing"))
    /\ exitStatus' = 1
    /\ pc' = "done"
    /\ UNCHANGED <<tree, srcExists, outputArg, outWritable, visited, stats,
                   totals, outfile, runs, prevConsole, prevOutfile,
                   cfile, result>>

\* Lines 111-118: the directory exists, scan_directory is called.
main_scan ==
    /\ pc = "start"
    /\ srcExists
    /\ console' = Append(console, Line("scanning"))
    /\ stats' = <<>>
    /\ pc' = "scan"
    /\ UNCHANGED <<tree, srcExists, outputArg, outWritable, exitStatus, visited,
                   totals, outfile, runs, prevConsole, prevOutfile,
                   cfile, result>>

\* Lines 52-64: one iteration of the loop over directory.rglob('*'), which
\* yields the entries in an order the file system decides.
scan_directory_item(item) ==
    /\ pc = "scan"
    /\ item \in tree \ visited
    /\ visited' = visited \cup {item}
    /\ IF item.isFile /\ is_typescript_file(item.path)
       THEN LET relative_path == item.path
                folder == folder_name(relative_path)
                r == count_lines_in_file(item)
            IN /\ stats' = add_file(setdefault(stats, folder), folder, r)
               /\ console' = IF r.err THEN Append(console, ErrorLine(item.path))
                             ELSE console
       ELSE UNCHANGED <<stats, console>>
    /\ UNCHANGED <<tree, srcExists, outputArg, outWritable, pc, exitStatus,
                   totals, outfile, runs, prevConsole, prevOutfile,
                   cfile, result>>

\* Line 66: rglob is exhausted, scan_directory returns stats.
scan_directory_return ==
    /\ pc = "scan"
    /\ visited = tree
    /\ pc' = "report"
    /\ UNCHANGED <<tree, srcExists, outputArg, outWritable, exitStatus, visited,
                   stats, totals, console, outfile, runs, prevConsole, prevOutfile, cfile, result>>

main_no_files_falls_through ==
    /\ pc = "report"
    /\ stats = <<>>
    /\ console' = Append(console, Line("nofiles")) \o print_stats_lines(stats)
    /\ totals' = print_stats_totals(stats)
    /\ pc' = IF outputArg THEN "write" ELSE "done"
    /\ exitStatus' = IF outputArg THEN exitStatus ELSE 0
    /\ UNCHANGED <<tree, srcExists, outputArg, outWritable, visited, stats,
                   outfile, runs, prevConsole, prevOutfile, cfile,
                   result>>

\* Lines 120-122: no stats, print the notice and return.
main_no_files ==
    /\ pc = "report"
    /\ stats = <<>>
    /\ console' = Append(console, Line("nofiles"))
    /\ pc' = "done"
    /\ exitStatus' = 0
    /\ UNCHANGED <<tree, srcExists, outputArg, outWritable, visited, stats,
                   totals, outfile, runs, prevConsole, prevOutfile,
                   cfile, result>>

\* Lines 125-128: print_stats, then return unless --output was given.
main_print_stats ==
    /\ pc = "report"
    /\ stats # <<>>
    /\ console' = console \o print_stats_lines(stats)
    /\ totals' = print_stats_totals(stats)
    /\ pc' = IF outputArg THEN "write" ELSE "done"
    /\ exitStatus' = IF outputArg THEN exitStatus ELSE 0
    /\ UNCHANGED <<tree, srcExists, outputArg, outWritable, visited, stats,
                   outfile, runs, prevConsole, prevOutfile, cfile,
                   result>>

\* Lines 129-144: the table is written to the output file.
main_write_output ==
    /\ pc = "write"
    /\ outWritable
    /\ outfile' = output_file_lines(stats, totals)
    /\ console' = Append(console, Line("saved"))
    /\ pc' = "done"
    /\ exitStatus' = 0
    /\ UNCHANGED <<tree, srcExists, outputArg, outWritable, visited, stats,
                   totals, runs, prevConsole, prevOutfile, cfile,
                   result>>

\* Line 130: open() raises, nothing catches it, the interpreter exits with 1.
main_write_raises ==
    /\ pc = "write"
    /\ ~outWritable
    /\ pc' = "done"
    /\ exitStatus' = 1
    /\ UNCHANGED <<tree, srcExists, outputArg, outWritable, visited, stats,
                   totals, console, outfile, runs, prevConsole,
                   prevOutfile, cfile, result>>

\* The program is run again over the same tree with the same arguments.
run_again ==
    /\ pc = "done"
    /\ runs < MaxRuns
    /\ runs' = runs + 1
    /\ prevConsole' = console
    /\ prevOutfile' = outfile
    /\ pc' = "start"
    /\ exitStatus' = -1
    /\ visited' = {}
    /\ stats' = <<>>
    /\ totals' = <<0, 0, 0>>
    /\ console' = <<>>
    /\ UNCHANGED <<tree, srcExists, outputArg, outWritable, outfile, cfile,
                   result>>

(***************************************************************************)
(* count_lines_in_file on a file of its own                                *)
(***************************************************************************)
NoResult == [total_lines |-> -1, code_lines |-> -1, err |-> FALSE]

NoFile == [path |-> PathAX, isFile |-> TRUE, readable |-> TRUE, content |-> <<>>]

\* The file gets one more character.
write_char(c) ==
    /\ result = NoResult
    /\ Len(cfile.content) < MaxLen
    /\ cfile' = [cfile EXCEPT !.content = Append(@, c)]
    /\ UNCHANGED <<mainVars, result>>

\* Lines 26-42.
call_count_lines_in_file ==
    /\ result = NoResult
    /\ result' = count_lines_in_file(cfile)
    /\ UNCHANGED <<mainVars, cfile>>

(***************************************************************************)
(* Specifications                                                          *)
(***************************************************************************)
InitRun ==
    /\ srcExists \in BOOLEAN
    /\ outputArg \in BOOLEAN
    /\ outWritable \in BOOLEAN
    /\ tree \in Trees
    /\ ~srcExists => tree = {}
    /\ ~outputArg => outWritable
    /\ pc = "start"
    /\ exitStatus = -1
    /\ visited = {}
    /\ stats = <<>>
    /\ totals = <<0, 0, 0>>
    /\ console = <<>>
    /\ outfile = <<>>
    /\ runs = 1
    /\ prevConsole = <<>>
    /\ prevOutfile = <<>>

Init ==
    /\ InitRun
    /\ cfile = NoFile
    /\ result = NoResult

Next ==
    \/ main_src_missing
    \/ main_scan
    \/ \E item \in tree : scan_directory_item(item)
    \/ scan_directory_return
    \/ main_no_files
    \/ main_print_stats
    \/ main_write_output
    \/ main_write_raises

\* One run of main.
Spec == Init /\ [][Next]_vars

NextTwice ==
    \/ Next
    \/ run_again

\* The program run MaxRuns times over the same tree.
SpecTwice == Init /\ [][NextTwice]_vars

InitCount ==
    /\ InitRun
    /\ tree = {}
    /\ srcExists
    /\ ~outputArg
    /\ cfile \in {[NoFile EXCEPT !.readable = b] : b \in BOOLEAN}
    /\ result = NoResult

NextCount ==
    \/ \E c \in ContentChars : write_char(c)
    \/ call_count_lines_in_file

\* count_lines_in_file applied to every file of at most MaxLen characters.
SpecCount == InitCount /\ [][NextCount]_vars

(***************************************************************************)
(* Helpers of the properties                                               *)
(***************************************************************************)
RowsOf(out) == SelectSeq(out, LAMBDA l : l.kind = "row")

TableKinds == {"title", "header", "row", "total", "rule=", "rule-"}

HasTable(out) == \E i \in 1..Len(out) : out[i].kind \in TableKinds

CountKind(out, kind) == Cardinality({i \in 1..Len(out) : out[i].kind = kind})

\* Sum of the function f over the set S.
RECURSIVE SetSum(_, _)
SetSum(f, S) ==
    IF S = {} THEN 0
    ELSE LET x == CHOOSE y \in S : TRUE IN f[x] + SetSum(f, S \ {x})

\* Sum of one numeric column over a sequence of records.
ColumnSum(rs, col) == SetSum([i \in 1..Len(rs) |-> rs[i][col]], 1..Len(rs))

VisitedMatched == visited \cap Matched(tree)

Scanned == pc \in {"report", "write", "done"} /\ srcExists

\* The folder the specification assigns to a matched file.
SentinelFolder(e) == IF Len(e.path) = 1 THEN ROOT ELSE e.path[1]

(***************************************************************************)
(* C1: every matched file is grouped under the first segment of its path   *)
(* relative to the root, and a file directly in the root under 'root'.     *)
(* The code takes parts[0] of a relative path that is never empty, so a    *)
(* file in the root is grouped under its own name.                         *)
(***************************************************************************)
C1_RootFilesUnderSentinel ==
    /\ \A e \in VisitedMatched : has_key(stats, SentinelFolder(e))
    /\ \A i \in 1..Len(stats) :
          stats[i].files =
             Cardinality({e \in VisitedMatched : SentinelFolder(e) = stats[i].folder})

(***************************************************************************)
(* C2: a matched file whose read fails adds 1 to the file count of its     *)
(* folder and 0 to both line counts, is logged, does not stop the scan,    *)
(* and never makes the run fail.                                           *)
(***************************************************************************)
C2_ReadFailureContained ==
    /\ \A i \in 1..Len(stats) :
          LET V == {e \in VisitedMatched : folder_name(e.path) = stats[i].folder}
              G == {e \in V : ~read_raises(e)}
          IN /\ stats[i].files = Cardinality(V)
             /\ stats[i].total_lines =
                   SetSum([e \in G |-> count_lines_in_file(e).total_lines], G)
             /\ stats[i].code_lines =
                   SetSum([e \in G |-> count_lines_in_file(e).code_lines], G)
    /\ CountKind(console, "error") =
          Cardinality({e \in VisitedMatched : read_raises(e)})
    /\ Scanned => visited = tree
    /\ (pc = "done" /\ exitStatus # 0) => (~srcExists \/ (outputArg /\ ~outWritable))

C2_Witness ==
    /\ pc = "done"
    /\ exitStatus = 0
    /\ \E e \in Matched(tree), g \in Matched(tree) :
          /\ read_raises(e)
          /\ ~read_raises(g)
          /\ folder_name(e.path) = folder_name(g.path)
          /\ get(stats, folder_name(e.path)).files = 2
    /\ CountKind(console, "error") >= 1

(***************************************************************************)
(* C3: when the source directory does not exist, main prints the error and *)
(* exits with status 1 before scan_directory is called: nothing is read,   *)
(* no table is printed and no output file is written.                      *)
(***************************************************************************)
C3_MissingSrcExits ==
    ~srcExists =>
        /\ pc \in {"start", "done"}
        /\ visited = {}
        /\ stats = <<>>
        /\ ~HasTable(console)
        /\ outfile = <<>>
        /\ pc = "done" => (exitStatus = 1 /\ console = <<Line("missing")>>)

C3_Witness ==
    /\ ~srcExists
    /\ outputArg
    /\ pc = "done"
    /\ exitStatus = 1

(***************************************************************************)
(* C4: when the tree exists and holds no matching file, the run prints the *)
(* 'no files found' notice once, renders no table on the console or in the *)
(* output file, and ends with status 0.                                    *)
(***************************************************************************)
C4_NoFilesNotice ==
    (srcExists /\ Matched(tree) = {}) =>
        /\ ~HasTable(console)
        /\ outfile = <<>>
        /\ pc \notin {"write"}
        /\ pc = "done" => (exitStatus = 0 /\ CountKind(console, "nofiles") = 1)

C4_Witness ==
    /\ srcExists
    /\ outputArg
    /\ Cardinality(tree) >= 2
    /\ Matched(tree) = {}
    /\ pc = "done"
    /\ CountKind(console, "nofiles") = 1

(***************************************************************************)
(* C5: the 'files' fields of the stats entries sum to the number of        *)
(* matched files seen so far, hence to the number of matched files of the  *)
(* tree once scan_directory has returned, failed reads included.           *)
(***************************************************************************)
C5_FileCountsSum ==
    /\ ColumnSum(stats, "files") = Cardinality(VisitedMatched)
    /\ Scanned => ColumnSum(stats, "files") = Cardinality(Matched(tree))

C5_Witness ==
    /\ pc = "done"
    /\ Cardinality(Matched(tree)) >= 2
    /\ tree \ Matched(tree) # {}
    /\ \E e \in Matched(tree) : read_raises(e)
    /\ ColumnSum(stats, "files") = Cardinality(Matched(tree))

(***************************************************************************)
(* C6: in the console table and in the output file, each number of the     *)
(* totals row is the sum of its column over the folder rows of that table. *)
(***************************************************************************)
C6_TotalsRowSumsColumns ==
    \A out \in {console, outfile} :
        \A i \in 1..Len(out) :
            out[i].kind = "total" =>
                /\ out[i].files = ColumnSum(RowsOf(out), "files")
                /\ out[i].total_lines = ColumnSum(RowsOf(out), "total_lines")
                /\ out[i].code_lines = ColumnSum(RowsOf(out), "code_lines")

C6_Witness ==
    /\ pc = "done"
    /\ Len(RowsOf(console)) >= 2
    /\ Len(RowsOf(outfile)) >= 2
    /\ \E i \in 1..Len(outfile) :
          /\ outfile[i].kind = "total"
          /\ outfile[i].code_lines < outfile[i].total_lines
          /\ outfile[i].code_lines > 0

(***************************************************************************)
(* C7: a second run over the unchanged tree prints the same table and      *)
(* leaves the same output file as the run before it, whatever the order    *)
(* in which the two traversals yield the files.                            *)
(***************************************************************************)
C7_SameTableEveryRun ==
    (runs >= 2 /\ pc = "done") =>
        /\ Table(console) = Table(prevConsole)
        /\ outfile = prevOutfile

C7_Witness ==
    /\ runs = 2
    /\ pc = "done"
    /\ console # prevConsole
    /\ Len(RowsOf(console)) >= 2
    /\ outfile # <<>>
    /\ \E i \in 1..(Len(stats) - 1) : str_lt(stats[i + 1].folder, stats[i].folder)

(***************************************************************************)
(* C8: count_lines_in_file returns the number of line records and the      *)
(* number of lines whose first non-blank characters exist and are neither  *)
(* '//' nor '/*'; nothing is remembered from one line to the next.         *)
(***************************************************************************)
\* Positions at which a line record starts.
LineStarts(s) == {i \in 1..Len(s) : i = 1 \/ s[i - 1] = NL}

\* The line starting at i has a first non-blank character that does not
\* open a comment.
CodeAt(s, i) ==
    \E p \in i..Len(s) :
        /\ s[p] \notin Whitespace
        /\ \A q \in i..(p - 1) : s[q] = " "
        /\ ~(s[p] = "/" /\ p < Len(s) /\ s[p + 1] \in {"/", "*"})

C8_LineCounts ==
    (result # NoResult /\ ~read_raises(cfile)) =>
        /\ ~result.err
        /\ result.total_lines = Cardinality(LineStarts(cfile.content))
        /\ result.code_lines =
              Cardinality({i \in LineStarts(cfile.content) : CodeAt(cfile.content, i)})
        /\ cfile.content = ContentExample =>
              (result.total_lines = 3 /\ result.code_lines = 1)
        /\ cfile.content = <<"/", "*", NL, "x">> =>
              (result.total_lines = 2 /\ result.code_lines = 1)

C8_Witness ==
    /\ cfile.content = ContentExample
    /\ result = [total_lines |-> 3, code_lines |-> 1, err |-> FALSE]

(***************************************************************************)
(* C9: at every step of a scan every stats entry has                       *)
(* 0 <= code_lines <= total_lines and files >= 0, and no step removes an   *)
(* entry or lowers one of its counters.                                    *)
(***************************************************************************)
C9_Bounded ==
    \A i \in 1..Len(stats) :
        /\ 0 <= stats[i].code_lines
        /\ stats[i].code_lines <= stats[i].total_lines
        /\ stats[i].files >= 0

C9_Monotone ==
    \A i \in 1..Len(stats) :
        /\ has_key(stats', stats[i].folder)
        /\ get(stats', stats[i].folder).files >= stats[i].files
        /\ get(stats', stats[i].folder).total_lines >= stats[i].total_lines
        /\ get(stats', stats[i].folder).code_lines >= stats[i].code_lines

C9_CountersBoundedAndMonotone == [][C9_Bounded /\ C9_Bounded' /\ C9_Monotone]_vars

C9_Witness ==
    /\ pc = "scan"
    /\ visited # tree
    /\ \E i \in 1..Len(stats) :
          /\ stats[i].files >= 2
          /\ 0 < stats[i].code_lines
          /\ stats[i].code_lines < stats[i].total_lines

(***************************************************************************)
(* C10: every rendered table has exactly one row per folder of the stats   *)
(* dict, in strictly ascending order of folder name, whatever the order in *)
(* which the folders were inserted.                                        *)
(***************************************************************************)
C10_RowsSortedOnePerFolder ==
    \A out \in {console, outfile} :
        CountKind(out, "total") > 0 =>
            LET r == RowsOf(out) IN
            /\ Len(r) = Len(stats)
            /\ {r[i].folder : i \in 1..Len(r)} = {stats[i].folder : i \in 1..Len(stats)}
            /\ \A i \in 1..(Len(r) - 1) : str_lt(r[i].folder, r[i + 1].folder)

C10_Witness ==
    /\ pc = "done"
    /\ outfile # <<>>
    /\ Len(stats) >= 3
    /\ \E i \in 1..(Len(stats) - 1) : str_lt(stats[i + 1].folder, stats[i].folder)
    /\ Len(RowsOf(console)) = Len(stats)

====
